---- MODULE Spec2Model ----
(***************************************************************************)
(* Model of the CLSP hub (internal/hub/server.go): the users and messages  *)
(* tables, the HTTP handlers /register, /users, /message and /messages,     *)
(* the hourly cleanup loop and Shutdown; and of the envelope codec          *)
(* (internal/crypto/message.go) as the sending client uses it.              *)
(*                                                                         *)
(* Every SQL statement is one atomic step on the tables; a handler is the  *)
(* sequence of its statements, so handlers of concurrent requests          *)
(* interleave statement by statement.  The clock `now` (time.Now().Unix()) *)
(* advances between any two steps.  Statements do not fail except on a     *)
(* PRIMARY KEY conflict; foreign keys are declared but not enforced, as    *)
(* the database is opened without the foreign_keys pragma.                 *)
(***************************************************************************)
EXTENDS Integers, Sequences, FiniteSets, TLC

(* ---------------------------------------------------------------------- *)
(* Bounds and input domains                                               *)
(* ---------------------------------------------------------------------- *)
MaxTime == 3
MaxSends == 3

Procs == {"h1", "h2"}

(* Requests of the sequential specification: u1 registers, u2 never does,  *)
(* so u2 is both an unregistered sender and an unregistered recipient.     *)
RegisterReqs ==
    {[ID |-> "u1", DisplayName |-> "alice", PublicKey |-> "k1"]}

(* The body of POST /message is a crypto.Message.  Byte strings are        *)
(* sequences, nil is the empty one; an absent attachment is NoAttachment. *)
NoAttachment == [present |-> FALSE]

File ==
    [present |-> TRUE, Filename |-> "f", ContentType |-> "application/octet-stream",
     Size |-> 1, Content |-> <<"c">>]

Envelope(id, sender, recipient, content, attachment) ==
    [ID |-> id, Sender |-> sender, Recipient |-> recipient, Timestamp |-> 0,
     Status |-> "sent", EncryptedKey |-> <<"k">>, IV |-> <<"v">>,
     Content |-> content, Signature |-> <<"s">>, Attachment |-> attachment]

MessageReqs ==
    {Envelope("m1", "u1", "u2", <<"a">>, NoAttachment),
     Envelope("m2", "u1", "u2", <<"b">>, File),
     Envelope("m2", "u2", "u1", <<"b">>, NoAttachment)}

FetchReqs ==
    [userID : {"u1", "u2"}, unreadOnly : BOOLEAN, limitStr : {<<>>},
     search : {<<>>}]

(* Requests of the specifications with two concurrent handlers.  In       *)
(* SpecRegister both handlers serve /register; in SpecFetch both serve    *)
(* /messages and the first one also /register and /message.               *)
RaceRegisterReqs ==
    [ID : {"u1", "u2"}, DisplayName : {"alice", "bob"}, PublicKey : {"k1", "k2"}]

RaceMessageReqs ==
    {Envelope("m1", "u1", "u2", <<"a">>, NoAttachment),
     Envelope("m2", "u1", "u2", <<"b">>, File)}

RaceFetchReqs ==
    [userID : {"u2"}, unreadOnly : BOOLEAN, limitStr : {<<>>}, search : {<<>>}]

(* Requests of the specification of the filters of GET /messages: u2      *)
(* registers and sends two messages to itself; u2 fetches with and        *)
(* without a limit and a search string, and one request has no user_id.   *)
FilterRegisterReqs ==
    {[ID |-> "u2", DisplayName |-> "bob", PublicKey |-> "k2"]}

FilterMessageReqs ==
    {Envelope("m1", "u2", "u2", <<"a">>, NoAttachment),
     Envelope("m2", "u2", "u2", <<"b">>, File)}

FilterFetchReqs ==
    [userID : {"u2"}, unreadOnly : BOOLEAN,
     limitStr : {<<>>, <<"0">>, <<"1">>, <<"2">>, <<"-", "1">>, <<"x">>},
     search : {<<>>, <<"a">>}]
      \cup {[userID |-> "", unreadOnly |-> FALSE, limitStr |-> <<"1">>,
              search |-> <<>>]}

(* Requests of the specification of the identity set: u1 registers, u2    *)
(* never does; each sends to the other and each fetches; the user list    *)
(* and the availability of a name are asked.                              *)
IdentityMessageReqs ==
    {Envelope("m1", "u1", "u2", <<"a">>, NoAttachment),
     Envelope("m2", "u2", "u1", <<"b">>, NoAttachment)}

IdentityUsersReqs == [onlineOnly : {FALSE}, search : {<<>>, <<"b">>}]

Usernames == {"", "alice", "bob"}

(* Requests of the specification of GET /users: two users register, u2   *)
(* also fetches; the list is asked with and without its two filters.     *)
UsersRegisterReqs ==
    {[ID |-> "u1", DisplayName |-> "alice", PublicKey |-> "k1"],
     [ID |-> "u2", DisplayName |-> "bob", PublicKey |-> "k2"]}

UsersReqs == [onlineOnly : BOOLEAN, search : {<<>>, <<"b">>}]

(* Durations in clock units of the model: server.go:87 (30 days) and      *)
(* server.go:196 (5 minutes), scaled down to 2 and 1 seconds.             *)
MessageExpiry == 2
OnlineWindow == 1

Null == -1

VARIABLES now, users, messages, nextRow, pc, req, local, sweep, out,
          quiet, retired, hub, active, codec

vars == <<now, users, messages, nextRow, pc, req, local, sweep, out,
          quiet, retired, hub, active, codec>>

(* now      : the wall clock, time.Now().Unix()                            *)
(* users    : the users table, keyed by id                                 *)
(* messages : the messages table, rows in insertion order                  *)
(* pc, req, local : per in-flight request, the statement it is at, the     *)
(*            decoded request and the handler's local variables            *)
(* sweep    : position of the cleanup goroutine inside its tick            *)
(* hub      : position of Shutdown: "running" before it is called, then    *)
(*            "stopped" (stopChan closed), "refusing" (HTTP server closed) *)
(*            and "closed" (database closed)                               *)
(* codec    : the client side: the envelope a sending client is building   *)
(* out      : the HTTP response written by the last step, if any           *)
(* nextRow, quiet, retired : history variables; nextRow numbers the rows   *)
(*            ever inserted, quiet holds the recipients that were          *)
(*            read-marked with no insert for them since, retired the       *)
(*            message ids that were read or deleted                        *)
(* A message row also carries history fields: row, its number among the   *)
(* rows ever inserted, marks, how often its read_at was written, and      *)
(* sent, the request body it was inserted from;                           *)
(* local.pending records the rows that were unread at a fetch's query.    *)
(* active counts the cleanups that have begun and not ended (history).   *)

NoReq == [op |-> "none"]
NoLocal == [expiresAt |-> Null, messages |-> <<>>, pending |-> {}]
NoOut == [status |-> 0]
NoCodec == [step |-> "none"]

(* ---------------------------------------------------------------------- *)
(* Shutdown state                                                         *)
(* ---------------------------------------------------------------------- *)
(* the listener takes new requests until server.Close() *)
Accepting == hub \in {"running", "stopped"}

(* after db.Close() every statement returns an error and changes nothing *)
Closed == hub = "closed"

(* ---------------------------------------------------------------------- *)
(* Tables                                                                 *)
(* ---------------------------------------------------------------------- *)
Registered == DOMAIN users

Rows == {messages[i] : i \in 1..Len(messages)}

StoredIds_Unread == {m.id : m \in {x \in Rows : x.read_at = Null}}

(* the ids under the PRIMARY KEY of messages *)
StoredIds == {m.id : m \in Rows}

RowOf(n) == CHOOSE m \in Rows : m.row = n

Stored(n) == \E m \in Rows : m.row = n

Respond(p, status, body) ==
    /\ pc' = [pc EXCEPT ![p] = "idle"]
    /\ req' = [req EXCEPT ![p] = NoReq]
    /\ local' = [local EXCEPT ![p] = NoLocal]
    /\ out' = [status |-> status, proc |-> p, req |-> req[p], body |-> body]

Touch_Create(id) ==
    [u \in Registered \cup {id} |->
        IF u = id
        THEN [display_name |-> "", public_key |-> "", last_seen |-> now,
              online |-> TRUE]
        ELSE users[u]]

Touch_SeenOnly(id) ==
    [u \in Registered |->
        IF u = id THEN [users[u] EXCEPT !.last_seen = now] ELSE users[u]]

(* UPDATE users SET last_seen = ?, online = 1 WHERE id = ? *)
Touch(id) ==
    [u \in Registered |->
        IF u = id THEN [users[u] EXCEPT !.last_seen = now, !.online = TRUE]
        ELSE users[u]]

(* ---------------------------------------------------------------------- *)
(* POST /register                                                         *)
(* ---------------------------------------------------------------------- *)
NameOwners_AnyId(name, id) ==
    {u \in Registered : users[u].display_name = name}

(* SELECT id FROM users WHERE display_name = ? AND id != ? *)
NameOwners(name, id) ==
    {u \in Registered : users[u].display_name = name /\ u # id}

RegisterCheck(p, user) ==
    /\ pc[p] = "idle"
    /\ Accepting
    /\ LET r == [op |-> "register", user |-> user] IN
       IF user.ID = "" \/ user.DisplayName = "" \/ user.PublicKey = ""
       THEN /\ out' = [status |-> 400, proc |-> p, req |-> r, body |-> <<>>]
            /\ UNCHANGED <<pc, req, local>>
       ELSE IF NameOwners(user.DisplayName, user.ID) # {}
       THEN /\ out' = [status |-> 409, proc |-> p, req |-> r, body |-> <<>>]
            /\ UNCHANGED <<pc, req, local>>
       ELSE /\ pc' = [pc EXCEPT ![p] = "reg_tx"]
            /\ req' = [req EXCEPT ![p] = r]
            /\ out' = NoOut
            /\ local' = local
    /\ UNCHANGED <<now, users, messages, nextRow, sweep,
                   hub, active, codec, quiet, retired>>

UpsertUser(user) ==
    (user.ID :> [display_name |-> user.DisplayName,
                 public_key |-> user.PublicKey,
                 last_seen |-> now,
                 online |-> TRUE]) @@ users

RegisterTx(p) ==
    /\ pc[p] = "reg_tx"
    /\ IF Closed
       THEN users' = users /\ Respond(p, 500, <<>>)
       ELSE users' = UpsertUser(req[p].user) /\ Respond(p, 201, <<>>)
    /\ UNCHANGED <<now, messages, nextRow, sweep,
                   hub, active, codec, quiet, retired>>

(* ---------------------------------------------------------------------- *)
(* POST /message                                                          *)
(* ---------------------------------------------------------------------- *)
MessageDecode(p, msg) ==
    /\ pc[p] = "idle"
    /\ Accepting
    /\ nextRow <= MaxSends
    /\ pc' = [pc EXCEPT ![p] = "msg_insert"]
    /\ req' = [req EXCEPT ![p] = [op |-> "message", msg |-> msg]]
    /\ local' = [local EXCEPT ![p].expiresAt = now + MessageExpiry]
    /\ out' = NoOut
    /\ UNCHANGED <<now, users, messages, nextRow, sweep,
                   hub, active, codec, quiet, retired>>

NewRow(msg, expiresAt) ==
    [id |-> msg.ID, sender_id |-> msg.Sender, recipient_id |-> msg.Recipient,
     content |-> msg.Content, created_at |-> now, read_at |-> Null,
     expires_at |-> expiresAt, row |-> nextRow, marks |-> 0, sent |-> msg]

InsertFails_UnknownRecipient(msg) ==
    Closed \/ msg.ID \in StoredIds \/ msg.Recipient \notin Registered

(* the INSERT returns an error: the database is closed or the id is taken; *)
(* sender_id and recipient_id are not checked against users                *)
InsertFails(msg) == Closed \/ msg.ID \in StoredIds

MessageInsert(p) ==
    /\ pc[p] = "msg_insert"
    /\ IF InsertFails(req[p].msg)
       THEN /\ Respond(p, 500, <<>>)
            /\ UNCHANGED <<messages, nextRow, quiet>>
       ELSE /\ messages' = Append(messages, NewRow(req[p].msg, local[p].expiresAt))
            /\ nextRow' = nextRow + 1
            /\ quiet' = quiet \ {req[p].msg.Recipient}
            /\ pc' = [pc EXCEPT ![p] = "msg_seen"]
            /\ out' = NoOut
            /\ UNCHANGED <<req, local>>
    /\ UNCHANGED <<now, users, sweep,
                   hub, active, codec, retired>>

MessageSeen(p) ==
    /\ pc[p] = "msg_seen"
    /\ users' = IF Closed THEN users ELSE Touch(req[p].msg.Sender)
    /\ Respond(p, 201, <<>>)
    /\ UNCHANGED <<now, messages, nextRow, sweep,
                   hub, active, codec, quiet, retired>>

(* ---------------------------------------------------------------------- *)
(* GET /users                                                             *)
(* ---------------------------------------------------------------------- *)
(* the characters of a display name, for LIKE *)
Chars(name) ==
    CASE name = "alice" -> <<"a", "l", "i", "c", "e">>
      [] name = "bob" -> <<"b", "o", "b">>

(* WHERE online = 1 AND display_name LIKE '%search%', each condition only *)
(* if asked for                                                           *)
UserMatches(u, onlineOnly, search) ==
    /\ onlineOnly => users[u].online
    /\ search # <<>> =>
          \E i \in 0..(Len(Chars(users[u].display_name)) - Len(search)) :
              SubSeq(Chars(users[u].display_name), i + 1, i + Len(search)) = search

(* one scanned row of the SELECT *)
UserEntry(u) ==
    [id |-> u, display_name |-> users[u].display_name,
     public_key |-> users[u].public_key, last_seen |-> users[u].last_seen,
     online |-> users[u].online]

(* the SELECT has no ORDER BY: the matching rows in any order *)
UserLists(onlineOnly, search) ==
    LET S == {u \in Registered : UserMatches(u, onlineOnly, search)}
    IN {[i \in 1..Cardinality(S) |-> UserEntry(f[i])] :
           f \in {g \in [1..Cardinality(S) -> S] :
                      \A i, j \in 1..Cardinality(S) : i # j => g[i] # g[j]}}

Users(p, onlineOnly, search) ==
    /\ pc[p] = "idle"
    /\ Accepting
    /\ \E s \in UserLists(onlineOnly, search) :
          out' = [status |-> 200, proc |-> p,
                  req |-> [op |-> "users", onlineOnly |-> onlineOnly,
                           search |-> search],
                  body |-> s]
    /\ UNCHANGED <<now, users, messages, nextRow, pc, req, local, sweep,
                   hub, active, codec,
                   quiet, retired>>

(* ---------------------------------------------------------------------- *)
(* GET /check-username                                                    *)
(* ---------------------------------------------------------------------- *)
(* SELECT EXISTS(SELECT 1 FROM users WHERE display_name = ?) *)
NameExists(username) ==
    \E u \in Registered : users[u].display_name = username

CheckUsername(p, username) ==
    /\ pc[p] = "idle"
    /\ Accepting
    /\ LET r == [op |-> "check-username", username |-> username]
       IN out' = IF username = ""
                 THEN [status |-> 400, proc |-> p, req |-> r, body |-> <<>>]
                 ELSE [status |-> 200, proc |-> p, req |-> r,
                       body |-> [available |-> ~NameExists(username)]]
    /\ UNCHANGED <<now, users, messages, nextRow, pc, req, local, sweep,
                   hub, active, codec,
                   quiet, retired>>

(* ---------------------------------------------------------------------- *)
(* GET /messages                                                          *)
(* ---------------------------------------------------------------------- *)
Digits == {"0", "1", "2", "3", "4", "5", "6", "7", "8", "9"}

DigitVal(c) ==
    CASE c = "0" -> 0 [] c = "1" -> 1 [] c = "2" -> 2 [] c = "3" -> 3
      [] c = "4" -> 4 [] c = "5" -> 5 [] c = "6" -> 6 [] c = "7" -> 7
      [] c = "8" -> 8 [] c = "9" -> 9

RECURSIVE DecVal(_)
DecVal(s) ==
    IF s = <<>> THEN 0
    ELSE 10 * DecVal(SubSeq(s, 1, Len(s) - 1)) + DigitVal(s[Len(s)])

(* strconv.Atoi on the limit parameter: optional sign, then digits *)
Atoi(s) ==
    LET signed == s # <<>> /\ s[1] \in {"+", "-"}
        ds == IF signed THEN Tail(s) ELSE s
    IN IF ds = <<>> \/ \E i \in 1..Len(ds) : ds[i] \notin Digits
       THEN [ok |-> FALSE, val |-> 0]
       ELSE [ok |-> TRUE,
             val |-> IF signed /\ s[1] = "-" THEN 0 - DecVal(ds) ELSE DecVal(ds)]

(* content LIKE '%search%' *)
Like(content, search) ==
    \E i \in 0..(Len(content) - Len(search)) :
        SubSeq(content, i + 1, i + Len(search)) = search

Matches_AnyRecipient(m, userID, unreadOnly, search) ==
    /\ m.sender_id \in Registered
    /\ m.expires_at > now
    /\ unreadOnly => m.read_at = Null
    /\ search # <<>> => Like(m.content, search)

(* the WHERE clause of the SELECT, with the JOIN on the sender *)
Matches(m, userID, unreadOnly, search) ==
    /\ m.sender_id \in Registered
    /\ m.recipient_id = userID
    /\ m.expires_at > now
    /\ unreadOnly => m.read_at = Null
    /\ search # <<>> => Like(m.content, search)

Selected(userID, unreadOnly, search) ==
    {m \in Rows : Matches(m, userID, unreadOnly, search)}

(* ORDER BY m.created_at DESC: every order of the rows that is descending  *)
(* in created_at; rows with equal created_at come in any order             *)
Ordered(S) ==
    {s \in [1..Cardinality(S) -> S] :
        /\ \A i, j \in 1..Cardinality(S) : i # j => s[i] # s[j]
        /\ \A i, j \in 1..Cardinality(S) :
              i < j => s[i].created_at >= s[j].created_at}

Limited_Oldest(s, limit) ==
    IF limit > 0 /\ limit < Len(s)
    THEN SubSeq(s, Len(s) - limit + 1, Len(s)) ELSE s

(* LIMIT ? is added only when limit > 0 *)
Limited(s, limit) ==
    IF limit > 0 /\ limit < Len(s) THEN SubSeq(s, 1, limit) ELSE s

AfterQuery_AlwaysMark(unreadOnly) == "msgs_mark"

(* if !unreadOnly { UPDATE messages ... } *)
AfterQuery(unreadOnly) == IF unreadOnly THEN "msgs_seen" ELSE "msgs_mark"

AfterReject_GoOn == "msgs_mark"

(* http.Error(w, ..., http.StatusBadRequest) is followed by return *)
AfterReject == "idle"

MessagesQuery(p, userID, unreadOnly, limitStr, search) ==
    /\ pc[p] = "idle"
    /\ Accepting
    /\ LET r == [op |-> "messages", userID |-> userID, unreadOnly |-> unreadOnly,
                 limitStr |-> limitStr, search |-> search]
           limit == IF limitStr = <<>> THEN [ok |-> TRUE, val |-> 0]
                    ELSE Atoi(limitStr)
       IN IF userID = "" \/ ~limit.ok
          THEN /\ out' = [status |-> 400, proc |-> p, req |-> r, body |-> <<>>]
               /\ pc' = [pc EXCEPT ![p] = AfterReject]
               /\ UNCHANGED <<req, local>>
          ELSE \E s \in Ordered(Selected(userID, unreadOnly, search)) :
               /\ pc' = [pc EXCEPT ![p] = AfterQuery(unreadOnly)]
               /\ req' = [req EXCEPT ![p] = r]
               /\ local' = [local EXCEPT ![p].messages = Limited(s, limit.val),
                               ![p].pending = {m.row : m \in
                                   {x \in Rows : x.recipient_id = userID
                                                 /\ x.read_at = Null}}]
               /\ out' = NoOut
    /\ UNCHANGED <<now, users, messages, nextRow, sweep,
                   hub, active, codec, quiet, retired>>

MarkWhere_BySender(m, userID) == m.sender_id = userID /\ m.read_at = Null

MarkWhere_NoNullGuard(m, userID) == m.recipient_id = userID

(* UPDATE messages SET read_at = ? WHERE recipient_id = ? AND read_at IS NULL *)
MarkWhere(m, userID) == m.recipient_id = userID /\ m.read_at = Null

MarkRead_Overwrite(userID) ==
    [i \in 1..Len(messages) |->
        IF messages[i].recipient_id = userID
        THEN [messages[i] EXCEPT !.read_at = now, !.marks = @ + 1]
        ELSE messages[i]]

MarkRead(userID) ==
    [i \in 1..Len(messages) |->
        IF MarkWhere(messages[i], userID)
        THEN [messages[i] EXCEPT !.read_at = now, !.marks = @ + 1]
        ELSE messages[i]]

MessagesMark(p) ==
    /\ pc[p] = "msgs_mark"
    /\ IF Closed
       THEN UNCHANGED <<messages, quiet, retired>>
       ELSE /\ messages' = MarkRead(req[p].userID)
            /\ quiet' = quiet \cup {req[p].userID}
            /\ retired' = retired \cup
                   {m.id : m \in {x \in Rows : MarkWhere(x, req[p].userID)}}
    /\ pc' = [pc EXCEPT ![p] = "msgs_seen"]
    /\ out' = NoOut
    /\ UNCHANGED <<now, users, nextRow, req, local, sweep,
                   hub, active, codec>>

MessagesSeen(p) ==
    /\ pc[p] = "msgs_seen"
    /\ users' = IF Closed THEN users ELSE Touch(req[p].userID)
    /\ Respond(p, 200, local[p].messages)
    /\ UNCHANGED <<now, messages, nextRow, sweep,
                   hub, active, codec, quiet, retired>>

(* json.NewEncoder(w).Encode(messages): one hub Message as a JSON object,  *)
(* read_at left out when it is nil                                         *)
Encoded(m) ==
    LET obj == [id |-> m.id, sender_id |-> m.sender_id,
                recipient_id |-> m.recipient_id, content |-> m.content,
                created_at |-> m.created_at, expires_at |-> m.expires_at]
    IN IF m.read_at = Null THEN obj ELSE [read_at |-> m.read_at] @@ obj

(* the value of a key of a JSON object, or the zero value where the       *)
(* object has no such key                                                  *)
Field(obj, key, zero) == IF key \in DOMAIN obj THEN obj[key] ELSE zero

(* the client's json Decode of one element of the response into a         *)
(* crypto.Message, by the json tags of that struct                        *)
Decoded(obj) ==
    [ID |-> Field(obj, "id", ""), Sender |-> Field(obj, "sender", ""),
     Recipient |-> Field(obj, "recipient", ""),
     Timestamp |-> Field(obj, "timestamp", 0), Status |-> Field(obj, "status", ""),
     EncryptedKey |-> Field(obj, "encrypted_key", <<>>),
     IV |-> Field(obj, "iv", <<>>), Content |-> Field(obj, "content", <<>>),
     Signature |-> Field(obj, "signature", <<>>),
     Attachment |-> Field(obj, "attachment", NoAttachment)]

(* ---------------------------------------------------------------------- *)
(* cleanupLoop: one tick of the hourly ticker                             *)
(* ---------------------------------------------------------------------- *)
Expired_Strict(m) == m.expires_at < now

Expired(m) == m.expires_at <= now

Swept_KeepRead(rows) ==
    SelectSeq(rows, LAMBDA m : ~Expired(m) \/ m.read_at # Null)

Swept_ReadToo(rows) ==
    SelectSeq(rows, LAMBDA m : ~Expired(m) /\ m.read_at = Null)

Swept_OneRow(rows) ==
    LET idx == {i \in 1..Len(rows) : Expired(rows[i])}
        k == CHOOSE i \in idx : \A j \in idx : i <= j
    IN IF idx = {} THEN rows
       ELSE SubSeq(rows, 1, k - 1) \o SubSeq(rows, k + 1, Len(rows))

(* DELETE FROM messages WHERE expires_at <= ? *)
Swept(rows) == SelectSeq(rows, LAMBDA m : ~Expired(m))

AtSelect_Anywhere == sweep \in {"wait", "demote"}

(* the loop takes a tick of the ticker only in its select, that is, after *)
(* the body of the tick before has ended                                  *)
AtSelect == sweep = "wait"

SweepDelete ==
    /\ AtSelect
    /\ IF Closed
       THEN UNCHANGED <<messages, retired>>
       ELSE /\ messages' = Swept(messages)
            /\ retired' = retired \cup {m.id : m \in {x \in Rows : Expired(x)}}
    /\ sweep' = "demote"
    /\ active' = active + 1
    /\ out' = NoOut
    /\ UNCHANGED <<now, users, nextRow, pc, req, local, quiet, hub, codec>>

Inactive_Strict(u) == u.last_seen < now - OnlineWindow

(* WHERE last_seen <= now - 5 minutes *)
Inactive(u) == u.last_seen <= now - OnlineWindow

(* UPDATE users SET online = 0 WHERE last_seen <= ? *)
Demoted(us) ==
    [u \in DOMAIN us |->
        IF Inactive(us[u]) THEN [us[u] EXCEPT !.online = FALSE] ELSE us[u]]

SweepDemote ==
    /\ sweep = "demote"
    /\ users' = IF Closed THEN users ELSE Demoted(users)
    /\ sweep' = "wait"
    /\ active' = active - 1
    /\ out' = NoOut
    /\ UNCHANGED <<now, messages, nextRow, pc, req, local, quiet, retired,
                   hub, codec>>

(* case <-s.stopChan: return *)
SweepStop ==
    /\ AtSelect
    /\ hub # "running"
    /\ sweep' = "done"
    /\ out' = NoOut
    /\ UNCHANGED <<now, users, messages, nextRow, pc, req, local, quiet,
                   retired, hub, active, codec>>

(* ---------------------------------------------------------------------- *)
(* Shutdown: its three statements, none of which waits                    *)
(* ---------------------------------------------------------------------- *)
(* close(s.stopChan) *)
ShutdownStop ==
    /\ hub = "running"
    /\ hub' = "stopped"
    /\ out' = NoOut
    /\ UNCHANGED <<now, users, messages, nextRow, pc, req, local, sweep,
                   quiet, retired, active, codec>>

(* s.server.Close(): closes the listener and the connections, and returns *)
(* without waiting for the handlers that are running                      *)
ShutdownServer ==
    /\ hub = "stopped"
    /\ hub' = "refusing"
    /\ out' = NoOut
    /\ UNCHANGED <<now, users, messages, nextRow, pc, req, local, sweep,
                   quiet, retired, active, codec>>

(* s.db.Close() *)
ShutdownDb ==
    /\ hub = "refusing"
    /\ hub' = "closed"
    /\ out' = NoOut
    /\ UNCHANGED <<now, users, messages, nextRow, pc, req, local, sweep,
                   quiet, retired, active, codec>>

(* ---------------------------------------------------------------------- *)
(* Clock                                                                  *)
(* ---------------------------------------------------------------------- *)
Tick ==
    /\ now < MaxTime
    /\ now' = now + 1
    /\ out' = NoOut
    /\ UNCHANGED <<users, messages, nextRow, pc, req, local, sweep,
                   hub, active, codec,
                   quiet, retired>>

(* ---------------------------------------------------------------------- *)
(* The envelope codec (internal/crypto/message.go) and the sending client *)
(* ---------------------------------------------------------------------- *)
(* Key pairs are named; a private and a public key are of one pair iff     *)
(* they carry the same name.  A byte is a number in 0..3.  In a string,    *)
(* <FF> and <FE> stand for the bytes 0xFF and 0xFE, which are not valid    *)
(* UTF-8, and <U+FFFD> for the replacement character.                      *)
KeyPairs == {"A", "B", "C"}

Plaintexts == {<<>>, <<1>>, <<2, 3>>}

Attachments ==
    {NoAttachment,
     [present |-> TRUE, Filename |-> "f", ContentType |-> "application/octet-stream",
      Size |-> 1, Content |-> <<3>>],
     [present |-> TRUE, Filename |-> "f<FF>",
      ContentType |-> "application/octet-stream", Size |-> 2, Content |-> <<1, 2>>]}

AesKeys == {1, 2}

Ivs == {<<0>>, <<1>>}

Xor_Add(a, b) == (a + b) % 4

(* the exclusive or of two bytes *)
Xor(a, b) ==
    (((a % 2) + (b % 2)) % 2) + 2 * (((a \div 2) + (b \div 2)) % 2)

(* byte number i, from 0, of the CTR keystream of a key and an iv *)
KeyStream(key, iv, i) == (key + 2 * iv[1] + i) % 4

(* the length in bytes of an iv that cipher.NewCTR accepts (aes.BlockSize, *)
(* scaled down to the length of the ivs of the model)                     *)
BlockSize == 1

(* the session keys that aes.NewCipher accepts *)
ValidAesKey(key) == key \in AesKeys

Advance_Restart(pos, src) == 0

(* the position of a CTR stream after XORKeyStream of src at pos *)
Advance(pos, src) == pos + Len(src)

(* the keystream positions that XORKeyStream of src at pos uses *)
Positions(pos, src) == {pos + i - 1 : i \in 1..Len(src)}

(* stream.XORKeyStream(dst, src) on a stream that has given out pos bytes *)
XORKeyStream(key, iv, pos, src) ==
    [i \in 1..Len(src) |-> Xor(src[i], KeyStream(key, iv, pos + i - 1))]

(* rsa.EncryptOAEP under a public key *)
EncryptOAEP(pub, data) == [oaep |-> pub, data |-> data]

(* encoding/json writes a string coerced to valid UTF-8: every invalid     *)
(* byte becomes the replacement character                                  *)
ToValidUTF8(str) ==
    IF str \in {"f<FF>", "f<FE>"} THEN "f<U+FFFD>" ELSE str

(* json.Marshal of a crypto.Message: the fields under their json tags,    *)
(* a nil signature as null, the attachment left out when it is nil        *)
Marshal(m) ==
    LET obj == [id |-> ToValidUTF8(m.ID), sender |-> ToValidUTF8(m.Sender),
                recipient |-> ToValidUTF8(m.Recipient),
                timestamp |-> m.Timestamp, status |-> ToValidUTF8(m.Status),
                encrypted_key |-> m.EncryptedKey, iv |-> m.IV,
                content |-> m.Content,
                signature |-> IF m.Signature = <<>> THEN "null" ELSE m.Signature]
    IN IF m.Attachment.present
       THEN [attachment |-> [filename |-> ToValidUTF8(m.Attachment.Filename),
                             content_type |-> ToValidUTF8(m.Attachment.ContentType),
                             size |-> m.Attachment.Size,
                             content |-> m.Attachment.Content]] @@ obj
       ELSE obj

Sha256(bytes) == [sha256 |-> bytes]

(* rsa.SignPKCS1v15 and rsa.VerifyPKCS1v15 *)
SignPKCS1v15(priv, digest) == [signer |-> priv, digest |-> digest]

VerifyPKCS1v15_AnyKey(pub, digest, sig) ==
    /\ DOMAIN sig = {"signer", "digest"}
    /\ sig.digest = digest

VerifyPKCS1v15(pub, digest, sig) ==
    /\ DOMAIN sig = {"signer", "digest"}
    /\ sig.signer = pub
    /\ sig.digest = digest

(* EncryptMessage: the envelope it returns; the attachment it is given is  *)
(* encrypted in place and becomes the envelope's attachment                *)
EncryptMessage(senderPriv, recipientPub, content, attachment, aesKey, iv) ==
    LET encryptedContent == XORKeyStream(aesKey, iv, 0, content)
        att == IF attachment.present
               THEN [attachment EXCEPT !.Content =
                        XORKeyStream(aesKey, iv, Advance(0, content),
                                     attachment.Content)]
               ELSE attachment
        msg == [ID |-> "", Sender |-> "", Recipient |-> "", Timestamp |-> 0,
                Status |-> "", EncryptedKey |-> EncryptOAEP(recipientPub, aesKey),
                IV |-> iv, Content |-> encryptedContent, Signature |-> <<>>,
                Attachment |-> att]
    IN [msg EXCEPT !.Signature = SignPKCS1v15(senderPriv, Sha256(Marshal(msg)))]

(* the keystream positions one pass of the stream over a content and an   *)
(* attachment uses for each of them                                       *)
KeystreamUse(content, attachment) ==
    [content |-> Positions(0, content),
     attachment |-> IF attachment.present
                    THEN Positions(Advance(0, content), attachment.Content)
                    ELSE {}]

(* rsa.DecryptOAEP under a private key *)
DecryptOAEP(priv, c) ==
    IF DOMAIN c = {"oaep", "data"} /\ c.oaep = priv
    THEN [ok |-> TRUE, data |-> c.data]
    ELSE [ok |-> FALSE]

(* DecryptMessage: what it returns (status "ok" with the plaintext, or     *)
(* "error"), or "panic" where cipher.NewCTR panics on the length of the    *)
(* iv; and the envelope afterwards, whose attachment is decrypted in place *)
DecryptMessage(recipientPriv, msg) ==
    LET aesKey == DecryptOAEP(recipientPriv, msg.EncryptedKey)
        att == msg.Attachment
    IN IF ~aesKey.ok THEN [status |-> "error", msg |-> msg]
       ELSE IF ~ValidAesKey(aesKey.data) THEN [status |-> "error", msg |-> msg]
       ELSE IF Len(msg.IV) # BlockSize THEN [status |-> "panic", msg |-> msg]
       ELSE [status |-> "ok",
             plaintext |-> XORKeyStream(aesKey.data, msg.IV, 0, msg.Content),
             msg |-> IF att.present
                     THEN [msg EXCEPT !.Attachment.Content =
                              XORKeyStream(aesKey.data, msg.IV,
                                           Advance(0, msg.Content), att.Content)]
                     ELSE msg,
             used |-> KeystreamUse(msg.Content, att)]

(* VerifySignature: TRUE iff it returns nil *)
VerifySignature(senderPub, msg) ==
    LET msgCopy == [msg EXCEPT !.Signature = <<>>]
    IN VerifyPKCS1v15(senderPub, Sha256(Marshal(msgCopy)), msg.Signature)

(* SendMessage up to crypto.EncryptMessage: the client of key pair sender  *)
(* encrypts for the public key it looked up for recipient.  given is the   *)
(* caller's attachment after the call: EncryptMessage takes a pointer and  *)
(* puts that same pointer into the envelope.                               *)
ClientEncrypt(sender, recipient, content, attachment, aesKey, iv) ==
    /\ codec.step = "none"
    /\ codec' = [step |-> "encrypted", sender |-> sender, recipient |-> recipient,
                 plain |-> [content |-> content, attachment |-> attachment],
                 msg |-> EncryptMessage(sender, recipient, content, attachment,
                                        aesKey, iv),
                 sealed |-> EncryptMessage(sender, recipient, content,
                                           attachment, aesKey, iv),
                 used |-> KeystreamUse(content, attachment),
                 given |-> EncryptMessage(sender, recipient, content,
                                          attachment, aesKey, iv).Attachment,
                 tampered |-> FALSE]
    /\ UNCHANGED <<now, users, messages, nextRow, pc, req, local, sweep, out,
                   quiet, retired, hub, active>>

(* SendMessage: "Set message metadata"; uuid.New() is any id *)
ClientStamp(id) ==
    /\ codec.step = "encrypted"
    /\ codec' = [codec EXCEPT !.step = "stamped",
                              !.msg = [@ EXCEPT !.ID = id,
                                                !.Sender = codec.sender,
                                                !.Recipient = codec.recipient,
                                                !.Timestamp = now,
                                                !.Status = "sent"]]
    /\ UNCHANGED <<now, users, messages, nextRow, pc, req, local, sweep, out,
                   quiet, retired, hub, active>>

(* VerifySignature called on the envelope with a public key *)
ClientVerify(pub) ==
    /\ codec.step \in {"encrypted", "stamped"}
    /\ codec' = [step |-> "verified", stamped |-> codec.step = "stamped",
                 key |-> pub, ok |-> VerifySignature(pub, codec.msg)] @@ codec
    /\ UNCHANGED <<now, users, messages, nextRow, pc, req, local, sweep, out,
                   quiet, retired, hub, active>>

(* The envelopes that differ from msg in one field other than the         *)
(* signature: what a change of the envelope after its signing can give    *)
Altered(msg) ==
    LET att == msg.Attachment
    IN {[msg EXCEPT !.ID = "x"], [msg EXCEPT !.Sender = "x"],
        [msg EXCEPT !.Recipient = "x"], [msg EXCEPT !.Timestamp = @ + 1],
        [msg EXCEPT !.Status = "read"],
        [msg EXCEPT !.EncryptedKey = <<>>],
        [msg EXCEPT !.EncryptedKey = EncryptOAEP(@.oaep, 0)],
        [msg EXCEPT !.IV = <<>>], [msg EXCEPT !.IV = <<1 - @[1]>>],
        [msg EXCEPT !.Content = @ \o <<0>>]}
       \cup
       (IF att.present
        THEN {[msg EXCEPT !.Attachment = NoAttachment],
              [msg EXCEPT !.Attachment.Filename =
                              IF @ = "f<FF>" THEN "f<FE>" ELSE "g"],
              [msg EXCEPT !.Attachment.ContentType = "text/plain"],
              [msg EXCEPT !.Attachment.Size = @ + 1],
              [msg EXCEPT !.Attachment.Content = <<3 - @[1]>> \o Tail(@)]}
        ELSE {[msg EXCEPT !.Attachment =
                  [present |-> TRUE, Filename |-> "g", ContentType |-> "text/plain",
                   Size |-> 0, Content |-> <<>>]]})

(* the envelope is changed between the sender and its use *)
ClientTamper ==
    /\ codec.step \in {"encrypted", "stamped"}
    /\ ~codec.tampered
    /\ \E m \in Altered(codec.msg) :
          codec' = [codec EXCEPT !.msg = m, !.tampered = TRUE]
    /\ UNCHANGED <<now, users, messages, nextRow, pc, req, local, sweep, out,
                   quiet, retired, hub, active>>

(* DecryptMessage called on the envelope with a private key *)
ClientDecrypt(priv) ==
    /\ codec.step \in {"encrypted", "stamped"}
    /\ LET r == DecryptMessage(priv, codec.msg)
       IN codec' = [step |-> "decrypted", stamped |-> codec.step = "stamped",
                    key |-> priv, before |-> codec.msg, msg |-> r.msg,
                    res |-> r] @@ codec
    /\ UNCHANGED <<now, users, messages, nextRow, pc, req, local, sweep, out,
                   quiet, retired, hub, active>>

(* ListMessages: the body of its loop for one fetched envelope, with the   *)
(* private key of the listing client.  It calls DecryptMessage and, if     *)
(* that returns no error, prints the plaintext; "crashed" where            *)
(* DecryptMessage panics.                                                  *)
ClientList(priv) ==
    /\ codec.step \in {"encrypted", "stamped"}
    /\ LET r == DecryptMessage(priv, codec.msg)
       IN codec' = [step |-> "listed", stamped |-> codec.step = "stamped",
                    key |-> priv, before |-> codec.msg, msg |-> r.msg,
                    shown |-> IF r.status = "ok" THEN "plaintext"
                              ELSE IF r.status = "error" THEN "failure"
                              ELSE "crashed",
                    res |-> r] @@ codec
    /\ UNCHANGED <<now, users, messages, nextRow, pc, req, local, sweep, out,
                   quiet, retired, hub, active>>

(* InitUser: the body it posts to /register, a JSON object with these keys *)
InitUserBody(userID, displayName, publicKeyPEM) ==
    [user_id |-> userID, display_name |-> displayName,
     public_key |-> publicKeyPEM]

(* handleRegister's json Decode of a body into a hub User, by the json     *)
(* tags of that struct; a key without a field is ignored                   *)
DecodedUser(obj) ==
    [ID |-> Field(obj, "id", ""),
     DisplayName |-> Field(obj, "display_name", ""),
     PublicKey |-> Field(obj, "public_key", "")]

(* uuid.New().String(), the names typed in and the generated keys *)
ClientUserIDs == {"u1", "u2"}
ClientNames == {"alice", "bob"}
ClientKeys == {"k1", "k2"}

Init ==
    /\ now = 0
    /\ users = <<>>
    /\ messages = <<>>
    /\ nextRow = 1
    /\ pc = [p \in Procs |-> "idle"]
    /\ req = [p \in Procs |-> NoReq]
    /\ local = [p \in Procs |-> NoLocal]
    /\ sweep = "wait"
    /\ out = NoOut
    /\ quiet = {}
    /\ retired = {}
    /\ hub = "running"
    /\ active = 0
    /\ codec = NoCodec

Next ==
    \/ Tick
    \/ \E u \in RegisterReqs : RegisterCheck("h1", u)
    \/ RegisterTx("h1")
    \/ \E m \in MessageReqs : MessageDecode("h1", m)
    \/ MessageInsert("h1")
    \/ MessageSeen("h1")
    \/ \E q \in FetchReqs :
           MessagesQuery("h1", q.userID, q.unreadOnly, q.limitStr, q.search)
    \/ MessagesMark("h1")
    \/ MessagesSeen("h1")
    \/ SweepDelete
    \/ SweepDemote

(* One request at a time, concurrent with the clock and the cleanup loop *)
Spec == Init /\ [][Next]_vars

NextRegister ==
    \/ Tick
    \/ \E p \in Procs : \E u \in RaceRegisterReqs : RegisterCheck(p, u)
    \/ \E p \in Procs : RegisterTx(p)

(* Two concurrent /register requests *)
SpecRegister == Init /\ [][NextRegister]_vars

NextFetch ==
    \/ Tick
    \/ \E u \in RegisterReqs : RegisterCheck("h1", u)
    \/ RegisterTx("h1")
    \/ \E m \in RaceMessageReqs : MessageDecode("h1", m)
    \/ MessageInsert("h1")
    \/ MessageSeen("h1")
    \/ \E p \in Procs : \E q \in RaceFetchReqs :
           MessagesQuery(p, q.userID, q.unreadOnly, q.limitStr, q.search)
    \/ \E p \in Procs : MessagesMark(p)
    \/ \E p \in Procs : MessagesSeen(p)

(* Two concurrent /messages requests for one recipient and a sender, with *)
(* the clock but without the cleanup loop                                *)
SpecFetch == Init /\ [][NextFetch]_vars

NextUsers ==
    \/ Tick
    \/ \E u \in UsersRegisterReqs : RegisterCheck("h1", u)
    \/ RegisterTx("h1")
    \/ \E q \in RaceFetchReqs :
           MessagesQuery("h1", q.userID, q.unreadOnly, q.limitStr, q.search)
    \/ MessagesMark("h1")
    \/ MessagesSeen("h1")
    \/ \E q \in UsersReqs : Users("h1", q.onlineOnly, q.search)
    \/ SweepDelete
    \/ SweepDemote

(* /register, /messages and /users served one at a time, with the clock   *)
(* and the cleanup loop                                                    *)
SpecUsers == Init /\ [][NextUsers]_vars

NextFilter ==
    \/ Tick
    \/ \E u \in FilterRegisterReqs : RegisterCheck("h1", u)
    \/ RegisterTx("h1")
    \/ \E m \in FilterMessageReqs : MessageDecode("h1", m)
    \/ MessageInsert("h1")
    \/ MessageSeen("h1")
    \/ \E q \in FilterFetchReqs :
           MessagesQuery("h1", q.userID, q.unreadOnly, q.limitStr, q.search)
    \/ MessagesMark("h1")
    \/ MessagesSeen("h1")

(* /register, /message and /messages with its filters, served one at a    *)
(* time, with the clock and without the cleanup loop, so that expired     *)
(* rows stay in the table                                                  *)
SpecFilter == Init /\ [][NextFilter]_vars

NextIdentity ==
    \/ Tick
    \/ \E u \in RegisterReqs : RegisterCheck("h1", u)
    \/ RegisterTx("h1")
    \/ \E m \in IdentityMessageReqs : MessageDecode("h1", m)
    \/ MessageInsert("h1")
    \/ MessageSeen("h1")
    \/ \E q \in FetchReqs :
           MessagesQuery("h1", q.userID, q.unreadOnly, q.limitStr, q.search)
    \/ MessagesMark("h1")
    \/ MessagesSeen("h1")
    \/ \E q \in IdentityUsersReqs : Users("h1", q.onlineOnly, q.search)
    \/ \E n \in Usernames : CheckUsername("h1", n)
    \/ SweepDelete
    \/ SweepDemote

(* every handler that reads or writes the users table, served one at a    *)
(* time, with the clock and the cleanup loop                              *)
SpecIdentity == Init /\ [][NextIdentity]_vars

NextClient ==
    \/ Tick
    \/ \E n \in ClientNames : CheckUsername("h1", n)
    \/ \E id \in ClientUserIDs : \E n \in ClientNames : \E k \in ClientKeys :
           RegisterCheck("h1", DecodedUser(InitUserBody(id, n, k)))
    \/ \E u \in RegisterReqs : RegisterCheck("h1", u)
    \/ RegisterTx("h1")
    \/ SweepDelete
    \/ SweepDemote

(* Clients that run InitUser against the hub, and one registration posted  *)
(* with the keys of the hub's User                                         *)
SpecClient == Init /\ [][NextClient]_vars

NextShutdown ==
    \/ Tick
    \/ \E u \in RegisterReqs : RegisterCheck("h1", u)
    \/ RegisterTx("h1")
    \/ \E m \in RaceMessageReqs : MessageDecode("h1", m)
    \/ MessageInsert("h1")
    \/ MessageSeen("h1")
    \/ \E q \in RaceFetchReqs :
           MessagesQuery("h1", q.userID, q.unreadOnly, q.limitStr, q.search)
    \/ MessagesMark("h1")
    \/ MessagesSeen("h1")
    \/ SweepDelete
    \/ SweepDemote
    \/ SweepStop
    \/ ShutdownStop
    \/ ShutdownServer
    \/ ShutdownDb

(* One request at a time, the clock and the cleanup loop, and Shutdown     *)
(* called at any moment                                                    *)
SpecShutdown == Init /\ [][NextShutdown]_vars

NextCodec ==
    \/ Tick
    \/ \E s \in KeyPairs : \E r \in KeyPairs : \E c \in Plaintexts :
       \E a \in Attachments : \E k \in AesKeys : \E v \in Ivs :
           ClientEncrypt(s, r, c, a, k, v)
    \/ \E id \in {"m1", "m2"} : ClientStamp(id)
    \/ \E k \in KeyPairs : ClientVerify(k)
    \/ \E k \in KeyPairs : ClientDecrypt(k)
    \/ \E k \in KeyPairs : ClientList(k)

(* One envelope built by a sending client and then verified, decrypted or *)
(* listed, with the clock                                                 *)
SpecCodec == Init /\ [][NextCodec]_vars

NextTamper ==
    \/ \E s \in KeyPairs : \E r \in KeyPairs : \E c \in Plaintexts :
       \E a \in Attachments : \E k \in AesKeys : \E v \in Ivs :
           ClientEncrypt(s, r, c, a, k, v)
    \/ \E id \in {"m1", "m2"} : ClientStamp(id)
    \/ ClientTamper
    \/ \E k \in KeyPairs : ClientVerify(k)
    \/ \E k \in KeyPairs : ClientDecrypt(k)
    \/ \E k \in KeyPairs : ClientList(k)

(* The same with a change of one field of the envelope on its way, and    *)
(* the clock standing still                                               *)
SpecTamper == Init /\ [][NextTamper]_vars

(* ---------------------------------------------------------------------- *)
(* Steps of the handlers, as seen on two successive states                *)
(* ---------------------------------------------------------------------- *)
QueryStep(p) == pc[p] = "idle" /\ pc'[p] \in {"msgs_mark", "msgs_seen"}

MarkStep(p) == pc[p] = "msgs_mark" /\ pc'[p] = "msgs_seen"

FetchDone(p) == pc[p] = "msgs_seen" /\ pc'[p] = "idle"

InsertStep(p) == pc[p] = "msg_insert" /\ pc'[p] = "msg_seen"

DeleteStep == sweep = "wait" /\ sweep' = "demote"

DemoteStep == sweep = "demote" /\ sweep' = "wait"

RowNums == {m.row : m \in Rows}

Returned(p) == {local[p].messages[i] : i \in 1..Len(local[p].messages)}

Unfiltered(r) == ~r.unreadOnly /\ r.limitStr = <<>> /\ r.search = <<>>

(* ---------------------------------------------------------------------- *)
(* Message lifecycle                                                      *)
(* ---------------------------------------------------------------------- *)

(* C1: once a fetch with unreadOnly=false has read-marked for recipient r  *)
(* and no message for r was inserted since, every fetch of r with          *)
(* unreadOnly=true returns no message.                                     *)
C1_ReadOnce ==
    [][\A p \in Procs :
          (QueryStep(p) /\ req'[p].unreadOnly /\ req'[p].userID \in quiet)
              => local'[p].messages = <<>>]_vars

(* an unread-only fetch answered with an empty list for a recipient who    *)
(* holds a visible message that an earlier fetch marked read               *)
C1_Witness ==
    /\ out.status = 200
    /\ out.req.op = "messages"
    /\ out.req.unreadOnly
    /\ out.req.userID \in quiet
    /\ out.body = <<>>
    /\ \E m \in Rows : /\ m.recipient_id = out.req.userID
                       /\ m.read_at # Null
                       /\ m.sender_id \in Registered
                       /\ m.expires_at > now

(* C2: when a fetch with unreadOnly=false has passed its read-mark, every  *)
(* message it returned as unread and that is still stored has read_at set, *)
(* up to the response; no step of a fetch with unreadOnly=true changes any *)
(* read_at.                                                                *)
C2_Marked ==
    \A p \in Procs :
        (pc[p] = "msgs_seen" /\ ~req[p].unreadOnly) =>
            \A m \in Returned(p) :
                (m.read_at = Null /\ Stored(m.row)) => RowOf(m.row).read_at # Null

C2_UnreadOnlyKeeps ==
    \A p \in Procs :
        \/ QueryStep(p) /\ req'[p].unreadOnly
        \/ /\ pc[p] \in {"msgs_mark", "msgs_seen"}
           /\ pc'[p] # pc[p]
           /\ req[p].unreadOnly
        => messages' = messages

C2_FetchMarksReturned == []C2_Marked /\ [][C2_UnreadOnlyKeeps]_vars

(* the response of a fetch with unreadOnly=false that returned a message   *)
(* it found unread, which is now stored as read                            *)
C2_Witness ==
    /\ out.status = 200
    /\ out.req.op = "messages"
    /\ ~out.req.unreadOnly
    /\ \E i \in 1..Len(out.body) :
          /\ out.body[i].read_at = Null
          /\ Stored(out.body[i].row)
          /\ RowOf(out.body[i].row).read_at # Null

(* C5: a stored message's read_at, once set, keeps its value; it goes from *)
(* null to set only in the read-mark of a fetch with unreadOnly=false by   *)
(* the message's recipient; a message is inserted with read_at null.       *)
C5_Step ==
    /\ \A m \in Rows : \A n \in Rows' :
          m.row = n.row =>
             /\ m.read_at # Null => n.read_at = m.read_at
             /\ (m.read_at = Null /\ n.read_at # Null) =>
                   \E p \in Procs : /\ MarkStep(p)
                                    /\ ~req[p].unreadOnly
                                    /\ req[p].userID = m.recipient_id
    /\ \A n \in Rows' : n.row \notin RowNums => n.read_at = Null

C5_ReadAtMonotonic == [][C5_Step]_vars

(* a message marked read at an earlier time than now, still stored *)
C5_Witness ==
    \E m \in Rows : m.read_at # Null /\ m.read_at < now

(* C6: a message id that was read, or deleted by the cleanup, is never     *)
(* stored with read_at null again.                                         *)
C6_NoBackToPending ==
    \A m \in Rows : m.read_at = Null => m.id \notin retired

(* C7: a fetch without filters returns exactly the stored messages of the  *)
(* recipient that expire after now, whoever their sender is.               *)
C7_Step ==
    \A p \in Procs :
        (QueryStep(p) /\ Unfiltered(req'[p])) =>
            {m.row : m \in {local'[p].messages[i] : i \in 1..Len(local'[p].messages)}}
              = {m.row : m \in {x \in Rows : /\ x.recipient_id = req'[p].userID
                                             /\ x.expires_at > now}}

C7_FetchReturnsAllLive == [][C7_Step]_vars

(* C8: no fetch returns a message with expires_at <= now, and a fetch      *)
(* without filters returns every message of the recipient that expires     *)
(* after now.                                                              *)
C8_Step ==
    \A p \in Procs :
        QueryStep(p) =>
            /\ \A i \in 1..Len(local'[p].messages) :
                  local'[p].messages[i].expires_at > now
            /\ Unfiltered(req'[p]) =>
                  \A x \in Rows :
                     (x.recipient_id = req'[p].userID /\ x.expires_at > now)
                        => \E i \in 1..Len(local'[p].messages) :
                              local'[p].messages[i].row = x.row

C8_ExpiredInvisible == [][C8_Step]_vars

(* C9: the cleanup's DELETE leaves no message with expires_at <= now and   *)
(* keeps every other message as it was; its UPDATE of users touches no     *)
(* message.                                                                *)
C9_Step ==
    /\ DeleteStep =>
          /\ \A n \in Rows' : n.expires_at > now
          /\ \A m \in Rows : m.expires_at > now => m \in Rows'
          /\ \A n \in Rows' : n \in Rows
    /\ DemoteStep => messages' = messages

C9_SweepDeletesExpired == [][C9_Step]_vars

(* right after a DELETE that removed a message and kept a read one *)
C9_Witness ==
    /\ sweep = "demote"
    /\ \E m \in Rows : m.read_at # Null /\ m.expires_at > now
    /\ \E id \in retired : id \notin StoredIds

(* C10: running the cleanup's statements again at the same now changes     *)
(* nothing, and a cleanup at a time when no message has expires_at <= now  *)
(* leaves the messages table unchanged.                                    *)
C10_Step ==
    /\ DeleteStep =>
          /\ Swept(messages') = messages'
          /\ (\A m \in Rows : m.expires_at > now) => messages' = messages
    /\ DemoteStep => Demoted(users') = users'

C10_SweepIdempotent == [][C10_Step]_vars

(* right after the DELETE of a second cleanup, with messages stored and    *)
(* no message ever deleted                                                 *)
C10_Witness ==
    /\ sweep = "demote"
    /\ messages # <<>>
    /\ \A m \in Rows : m.expires_at > now /\ m.created_at < now
    /\ \A id \in retired : id \in StoredIds
    /\ \E u \in Registered : ~users[u].online

(* ---------------------------------------------------------------------- *)
(* Concurrent requests                                                    *)
(* ---------------------------------------------------------------------- *)

(* C3: no two stored identities share a display name. *)
C3_UniqueNames ==
    \A a, b \in Registered :
        a # b => users[a].display_name # users[b].display_name

(* C4: with two fetches with unreadOnly=false of the same recipient in     *)
(* flight, every message that was unread at a fetch's query and is still   *)
(* stored is read once that fetch has passed its mark, read_at is written  *)
(* at most once per message, and a set read_at keeps its value.            *)
C4_State ==
    /\ \A m \in Rows : m.marks <= 1 /\ (m.marks = 1 <=> m.read_at # Null)
    /\ \A p \in Procs :
          (pc[p] = "msgs_seen" /\ ~req[p].unreadOnly) =>
              \A n \in local[p].pending : Stored(n) => RowOf(n).read_at # Null

C4_Keep ==
    \A m \in Rows : \A n \in Rows' :
        (m.row = n.row /\ m.read_at # Null) => n.read_at = m.read_at

C4_ConcurrentFetch == []C4_State /\ [][C4_Keep]_vars

(* both fetches are past their mark, both had found the same message       *)
(* unread, and the clock moved after it was marked                         *)
C4_Witness ==
    /\ pc["h1"] = "msgs_seen" /\ pc["h2"] = "msgs_seen"
    /\ req["h1"].userID = req["h2"].userID
    /\ \E n \in local["h1"].pending \cap local["h2"].pending :
          Stored(n) /\ RowOf(n).read_at # Null /\ RowOf(n).read_at < now

(* ---------------------------------------------------------------------- *)
(* Stored envelopes                                                       *)
(* ---------------------------------------------------------------------- *)

(* C11: every stored message has expires_at = created_at + MessageExpiry. *)
C11_ExpiryFromCreation ==
    \A m \in Rows : m.expires_at = m.created_at + MessageExpiry

(* C12: a /message request whose id is the id of a stored message is       *)
(* answered 500 and ends there; the messages table and the users table     *)
(* (the sender's last_seen and online included) are left as they were.     *)
C12_Step ==
    \A p \in Procs :
        (/\ pc[p] = "msg_insert"
         /\ pc'[p] # "msg_insert"
         /\ \E m \in Rows : m.id = req[p].msg.ID)
            => /\ out'.status = 500
               /\ out'.proc = p
               /\ pc'[p] = "idle"
               /\ messages' = messages
               /\ users' = users

C12_DuplicateIdRejected == [][C12_Step]_vars

(* a registered sender, last seen earlier, was just refused an id that is  *)
(* stored for a message of another sender                                  *)
C12_Witness ==
    /\ out.status = 500
    /\ out.req.op = "message"
    /\ out.req.msg.Sender \in Registered
    /\ users[out.req.msg.Sender].last_seen < now
    /\ \E m \in Rows : m.id = out.req.msg.ID /\ m.sender_id # out.req.msg.Sender

(* ---------------------------------------------------------------------- *)
(* Presence                                                               *)
(* ---------------------------------------------------------------------- *)
Actor(r) == IF r.op = "message" THEN r.msg.Sender ELSE r.userID

C14_Step ==
    /\ DeleteStep => users' = users
    /\ DemoteStep =>
          /\ DOMAIN users' = DOMAIN users
          /\ \A u \in Registered :
                /\ now - users[u].last_seen >= OnlineWindow => ~users'[u].online
                /\ now - users[u].last_seen < OnlineWindow
                      => users'[u].online = users[u].online
                /\ users'[u].last_seen = users[u].last_seen
                /\ users'[u].display_name = users[u].display_name
                /\ users'[u].public_key = users[u].public_key

C14_SweepDemotes == [][C14_Step]_vars

(* a cleanup has just ended that set a user offline who was last seen      *)
(* exactly OnlineWindow ago                                                *)
C14_Witness ==
    /\ sweep = "wait"
    /\ \E u \in Registered :
          ~users[u].online /\ users[u].last_seen = now - OnlineWindow

(* C15: every user that GET /users lists is reported online iff            *)
(* now - last_seen < OnlineWindow, and with online=true the list holds     *)
(* exactly the users with now - last_seen < OnlineWindow that match the    *)
(* search.                                                                 *)
C15_PresenceDerived ==
    (out.status = 200 /\ out.req.op = "users") =>
        /\ \A i \in 1..Len(out.body) :
              out.body[i].online <=> now - out.body[i].last_seen < OnlineWindow
        /\ out.req.onlineOnly =>
              {out.body[i].id : i \in 1..Len(out.body)} =
                  {u \in Registered :
                      /\ now - users[u].last_seen < OnlineWindow
                      /\ UserMatches(u, FALSE, out.req.search)}

(* ---------------------------------------------------------------------- *)
(* Registration                                                           *)
(* ---------------------------------------------------------------------- *)
Holders(user) ==
    {u \in Registered : u # user.ID /\ users[u].display_name = user.DisplayName}

(* C16: /register answers 409 iff, at its name check, another id is        *)
(* stored with the requested display name, and then the users table is     *)
(* unchanged; otherwise it answers 201 and the table then holds the        *)
(* requested id with the given display name and public key, every other    *)
(* user unchanged.                                                         *)
C16_Step ==
    \A p \in Procs :
        /\ (pc[p] = "idle" /\ pc'[p] = "idle"
               /\ out'.status = 409 /\ out'.proc = p)
              => Holders(out'.req.user) # {} /\ users' = users
        /\ (pc[p] = "idle" /\ pc'[p] = "reg_tx")
              => Holders(req'[p].user) = {} /\ users' = users
        /\ (pc[p] = "reg_tx" /\ pc'[p] # "reg_tx")
              => /\ out'.status = 201 /\ out'.proc = p
                 /\ DOMAIN users' = DOMAIN users \cup {req[p].user.ID}
                 /\ users'[req[p].user.ID].display_name = req[p].user.DisplayName
                 /\ users'[req[p].user.ID].public_key = req[p].user.PublicKey
                 /\ \A u \in Registered \ {req[p].user.ID} : users'[u] = users[u]

C16_RegisterOutcome == [][C16_Step]_vars

(* a second identity has just been registered, under a name and a key      *)
(* that differ from those of the identity registered before it             *)
C16_Witness ==
    /\ out.status = 201
    /\ out.req.op = "register"
    /\ users[out.req.user.ID].public_key = out.req.user.PublicKey
    /\ users[out.req.user.ID].last_seen = now
    /\ \E u \in Registered :
          /\ u # out.req.user.ID
          /\ users[u].last_seen < now
          /\ users[u].display_name # out.req.user.DisplayName
          /\ users[u].public_key # out.req.user.PublicKey

(* ---------------------------------------------------------------------- *)
(* Shutdown and the cleanup loop                                          *)
(* ---------------------------------------------------------------------- *)

(* C17: when the database is closed no cleanup is between its statements  *)
(* and no request is in flight, and from then on neither the cleanup loop  *)
(* nor a handler executes a statement.                                     *)
C17_State == Closed => (sweep # "demote" /\ \A p \in Procs : pc[p] = "idle")

C17_Step == Closed => (pc' = pc /\ sweep' \in {sweep, "done"})

C17_QuietAfterClose == []C17_State /\ [][C17_Step]_vars

(* C18: at most one cleanup is between its begin and its end; a cleanup    *)
(* begins only when none is running.                                       *)
C18_State == active <= 1

C18_Step == DeleteStep => active = 0

C18_OneSweep == []C18_State /\ [][C18_Step]_vars

(* a cleanup is running, after an earlier cleanup that set a user offline  *)
C18_Witness ==
    /\ active = 1
    /\ sweep = "demote"
    /\ \E u \in Registered : ~users[u].online

(* ---------------------------------------------------------------------- *)
(* The envelope on its way through the hub                                *)
(* ---------------------------------------------------------------------- *)

(* C19: every message of a /messages response, decoded by the client,     *)
(* carries the encrypted key, iv, content, signature and attachment of    *)
(* the request it was stored from.                                         *)
C19_EnvelopePreserved ==
    (out.status = 200 /\ out.req.op = "messages") =>
        \A i \in 1..Len(out.body) :
            LET e == Decoded(Encoded(out.body[i]))
                m == out.body[i].sent
            IN /\ e.EncryptedKey = m.EncryptedKey
               /\ e.IV = m.IV
               /\ e.Content = m.Content
               /\ e.Signature = m.Signature
               /\ e.Attachment = m.Attachment

(* ---------------------------------------------------------------------- *)
(* Signatures                                                             *)
(* ---------------------------------------------------------------------- *)

(* C20: an envelope returned by EncryptMessage and then given its          *)
(* metadata by the sending client passes VerifySignature under the public  *)
(* key of the sender.                                                      *)
C20_StampedVerifies ==
    (codec.step = "verified" /\ codec.stamped /\ codec.key = codec.sender)
        => codec.ok

(* ---------------------------------------------------------------------- *)
(* Encryption and decryption                                              *)
(* ---------------------------------------------------------------------- *)

(* C21: DecryptMessage of an envelope of EncryptMessage, with the private  *)
(* key of the recipient it was encrypted for, returns the plaintext and    *)
(* leaves the attachment with its plaintext bytes; the encrypted content   *)
(* and attachment are as long as their plaintexts.                         *)
C21_RoundTrip ==
    (codec.step = "decrypted" /\ codec.key = codec.recipient) =>
        /\ codec.res.status = "ok"
        /\ codec.res.plaintext = codec.plain.content
        /\ codec.msg.Attachment.present = codec.plain.attachment.present
        /\ Len(codec.before.Content) = Len(codec.plain.content)
        /\ codec.plain.attachment.present =>
              /\ codec.msg.Attachment.Content = codec.plain.attachment.Content
              /\ Len(codec.before.Attachment.Content) =
                     Len(codec.plain.attachment.Content)

(* a two-byte plaintext and a two-byte attachment came back from           *)
(* ciphertexts that differ from them                                       *)
C21_Witness ==
    /\ codec.step = "decrypted"
    /\ codec.key = codec.recipient
    /\ codec.sender # codec.recipient
    /\ codec.res.status = "ok"
    /\ Len(codec.plain.content) = 2
    /\ codec.plain.attachment.present
    /\ Len(codec.plain.attachment.Content) = 2
    /\ codec.before.Content # codec.plain.content
    /\ codec.before.Attachment.Content # codec.plain.attachment.Content
    /\ codec.res.plaintext = codec.plain.content
    /\ codec.msg.Attachment.Content = codec.plain.attachment.Content

(* C22: VerifySignature fails on every envelope in which a field other     *)
(* than the signature (encrypted key, iv, content, the attachment or one   *)
(* of its fields, or the metadata) differs from its value when the         *)
(* envelope was signed, whichever key it is called with.                   *)
C22_TamperDetected ==
    (/\ codec.step = "verified"
     /\ [codec.msg EXCEPT !.Signature = <<>>] #
            [codec.sealed EXCEPT !.Signature = <<>>]) => ~codec.ok

(* C23: an envelope signed with the private key of A fails VerifySignature *)
(* with the public key of every other key pair.                            *)
C23_NonTransference ==
    (codec.step = "verified" /\ codec.key # codec.sender) => ~codec.ok

(* an envelope that verifies under its sender's key was rejected under     *)
(* another key                                                             *)
C23_Witness ==
    /\ codec.step = "verified"
    /\ codec.key # codec.sender
    /\ codec.msg = codec.sealed
    /\ VerifySignature(codec.sender, codec.msg)
    /\ ~codec.ok

(* the keystream positions 0 .. n-1 for a content of n bytes and, for an   *)
(* attachment of k bytes, the positions n .. n+k-1                         *)
C24_Segments(use, content, attachment) ==
    /\ use.content = {i \in 0..(Len(content) + 2) : i < Len(content)}
    /\ use.attachment =
           IF attachment.present
               THEN {i \in 0..(Len(content) + Len(attachment.Content)) :
                         /\ i >= Len(content)
                         /\ i < Len(content) + Len(attachment.Content)}
               ELSE {}
    /\ use.content \cap use.attachment = {}

(* C24: within one EncryptMessage and within one DecryptMessage the        *)
(* keystream positions applied to the content are 0 .. len(content)-1 and  *)
(* those applied to the attachment start at len(content), so the two       *)
(* segments never overlap; the attachment bytes of the envelope are the    *)
(* plaintext bytes combined with the keystream at those positions.         *)
C24_DisjointKeystream ==
    /\ codec.step # "none" =>
          /\ C24_Segments(codec.used, codec.plain.content,
                          codec.plain.attachment)
          /\ codec.plain.attachment.present =>
                \A i \in 1..Len(codec.plain.attachment.Content) :
                    codec.sealed.Attachment.Content[i] =
                        Xor(codec.plain.attachment.Content[i],
                            KeyStream(codec.sealed.EncryptedKey.data,
                                      codec.sealed.IV,
                                      Len(codec.plain.content) + i - 1))
    /\ (codec.step = "decrypted" /\ codec.res.status = "ok") =>
          /\ C24_Segments(codec.res.used, codec.before.Content,
                          codec.before.Attachment)
          /\ codec.before.Attachment.present =>
                \A i \in 1..Len(codec.before.Attachment.Content) :
                    codec.msg.Attachment.Content[i] =
                        Xor(codec.before.Attachment.Content[i],
                            KeyStream(codec.res.msg.EncryptedKey.data,
                                      codec.before.IV,
                                      Len(codec.before.Content) + i - 1))

(* a decryption used two keystream positions for the content and two       *)
(* further ones for the attachment                                         *)
C24_Witness ==
    /\ codec.step = "decrypted"
    /\ codec.res.status = "ok"
    /\ codec.res.used.content = {0, 1}
    /\ codec.res.used.attachment = {2, 3}
    /\ codec.used = codec.res.used

(* C25: for every envelope, with or without an attachment, VerifySignature *)
(* under the sender's public key gives the same result on the envelope     *)
(* before DecryptMessage with the recipient's private key and on the same  *)
(* envelope after it.                                                      *)
C25_VerifyIndependent ==
    (codec.step = "decrypted" /\ codec.key = codec.recipient) =>
        VerifySignature(codec.sender, codec.before) =
            VerifySignature(codec.sender, codec.msg)

(* C26: every envelope that ListMessages displays as plaintext verifies    *)
(* under the public key of its sender, and an envelope that does not       *)
(* verify is reported as a failure of that message and not displayed.      *)
C26_ListedVerified ==
    codec.step = "listed" =>
        /\ codec.shown = "plaintext" =>
               VerifySignature(codec.sender, codec.before)
        /\ ~VerifySignature(codec.sender, codec.before) =>
               codec.shown = "failure"

(* C27: DecryptMessage returns an error, no plaintext and an untouched     *)
(* envelope, and does not crash, whenever the session key cannot be        *)
(* recovered with the given private key and whenever the length of the iv  *)
(* of the envelope is not the block size of the cipher.                    *)
C27_DecryptFailsCleanly ==
    (/\ codec.step = "decrypted"
     /\ \/ ~DecryptOAEP(codec.key, codec.before.EncryptedKey).ok
        \/ Len(codec.before.IV) # BlockSize) =>
        /\ codec.res.status = "error"
        /\ "plaintext" \notin DOMAIN codec.res
        /\ codec.msg = codec.before

(* ---------------------------------------------------------------------- *)
(* Order of a fetch, acceptance of a send, lifetime of a row               *)
(* ---------------------------------------------------------------------- *)

(* handler p has run the SELECT of GET /messages and holds its result *)
C28_Holds(p) == pc[p] \in {"msgs_mark", "msgs_seen"}

C28_Returned(p) == {local[p].messages[i] : i \in 1..Len(local[p].messages)}

(* C28: the result of a fetch is descending in created_at, and rows with   *)
(* equal created_at come in an order fixed by their insertion, so that two *)
(* identical fetches that return the same rows return the same sequence.   *)
C28_FetchOrder ==
    /\ \A p \in Procs : C28_Holds(p) =>
          \A i, j \in 1..Len(local[p].messages) :
              i < j => local[p].messages[i].created_at >=
                           local[p].messages[j].created_at
    /\ \A p, q \in Procs :
          (/\ C28_Holds(p) /\ C28_Holds(q)
           /\ req[p] = req[q]
           /\ C28_Returned(p) = C28_Returned(q)) =>
              local[p].messages = local[q].messages

(* C29: the INSERT of POST /message on an open database with an unused id  *)
(* stores the envelope whatever its recipient is, registered or not, and   *)
(* the handler then answers 201 whether the UPDATE of the sender's         *)
(* presence succeeded, failed or matched no user.                          *)
C29_Step ==
    \A p \in Procs :
        /\ (/\ pc[p] = "msg_insert" /\ pc'[p] # "msg_insert"
            /\ ~Closed /\ req[p].msg.ID \notin StoredIds) =>
               /\ pc'[p] = "msg_seen"
               /\ \E i \in 1..Len(messages') :
                      /\ messages'[i].id = req[p].msg.ID
                      /\ messages'[i].sender_id = req[p].msg.Sender
                      /\ messages'[i].recipient_id = req[p].msg.Recipient
                      /\ messages'[i].content = req[p].msg.Content
        /\ (pc[p] = "msg_seen" /\ pc'[p] # "msg_seen") =>
               /\ out'.status = 201
               /\ out'.req = req[p]

C29_SendAccepted == [][C29_Step]_vars

(* a send to an unregistered recipient was stored and answered 201         *)
(* although the presence update failed on the closed database: the sender  *)
(* was last seen before the row was created                                *)
C29_Witness ==
    /\ out.status = 201
    /\ out.req.op = "message"
    /\ out.req.msg.Recipient \notin Registered
    /\ out.req.msg.Sender \in Registered
    /\ Closed
    /\ \E m \in Rows : /\ m.id = out.req.msg.ID
                       /\ users[out.req.msg.Sender].last_seen < m.created_at

(* C30: over register, send, fetch and sweep steps a stored row keeps its  *)
(* id, sender, recipient, content, created_at and expires_at (only read_at *)
(* may change), and a row leaves the table only in the DELETE of the       *)
(* cleanup, taken when its expires_at <= now.                              *)
C30_Step ==
    \A i \in 1..Len(messages) :
        LET m == messages[i]
        IN \/ \E j \in 1..Len(messages') :
                  /\ messages'[j].row = m.row
                  /\ messages'[j].id = m.id
                  /\ messages'[j].sender_id = m.sender_id
                  /\ messages'[j].recipient_id = m.recipient_id
                  /\ messages'[j].content = m.content
                  /\ messages'[j].created_at = m.created_at
                  /\ messages'[j].expires_at = m.expires_at
           \/ /\ \A j \in 1..Len(messages') : messages'[j].row # m.row
              /\ DeleteStep
              /\ m.expires_at <= now

C30_ImmutableUntilSwept == [][C30_Step]_vars

(* the cleanup has deleted a row and left a row that a fetch has marked    *)
(* read, which still holds what was sent                                   *)
C30_Witness ==
    /\ sweep = "demote"
    /\ Len(messages) < nextRow - 1
    /\ \E m \in Rows :
          /\ m.read_at # Null
          /\ m.id = m.sent.ID
          /\ m.sender_id = m.sent.Sender
          /\ m.recipient_id = m.sent.Recipient
          /\ m.content = m.sent.Content

(* ---------------------------------------------------------------------- *)
(* Progress of the cleanup                                                *)
(* ---------------------------------------------------------------------- *)

(* Sends and fetches served one at a time by a hub that is never shut      *)
(* down, with a clock that advances and a ticker whose ticks the cleanup   *)
(* loop takes: the loop is a goroutine of its own that blocks only in its  *)
(* select, and each of its two statements ends.                            *)
NextLive ==
    \/ Tick
    \/ \E m \in RaceMessageReqs : MessageDecode("h1", m)
    \/ MessageInsert("h1")
    \/ MessageSeen("h1")
    \/ \E q \in RaceFetchReqs :
           MessagesQuery("h1", q.userID, q.unreadOnly, q.limitStr, q.search)
    \/ MessagesMark("h1")
    \/ MessagesSeen("h1")
    \/ SweepDelete
    \/ SweepDemote

SpecLive ==
    /\ Init
    /\ [][NextLive]_vars
    /\ WF_vars(Tick)
    /\ WF_vars(SweepDelete)
    /\ WF_vars(SweepDemote)

(* the row with insertion number r is in the table *)
C31_Stored(r) == \E m \in Rows : m.row = r

(* C31: with an advancing clock and a cleanup loop that keeps taking its   *)
(* ticks, and no shutdown, every stored row whose expires_at the clock     *)
(* reaches is eventually deleted, and a DELETE of the cleanup leaves no    *)
(* row with expires_at <= now, so the row goes at the first cleanup at or  *)
(* after its expiry.                                                       *)
C31_EventuallySwept ==
    /\ \A r \in 1..MaxSends :
          (\E m \in Rows : m.row = r /\ m.expires_at <= MaxTime)
              ~> ~C31_Stored(r)
    /\ [][DeleteStep => \A i \in 1..Len(messages') :
                            messages'[i].expires_at > now]_vars

(* the cleanup has deleted every row that was ever inserted, and at least  *)
(* two were                                                                *)
C31_Witness ==
    /\ nextRow > 2
    /\ messages = <<>>
    /\ sweep = "demote"

(* ---------------------------------------------------------------------- *)
(* GET /messages: rejection, marking, limit and isolation                  *)
(* ---------------------------------------------------------------------- *)

(* C32: a GET /messages answered 400, for a missing user_id or a limit    *)
(* that is not an integer, has no side effect: the step that answers it   *)
(* changes no row and no user, and the handler has ended with it.         *)
C32_Step ==
    (out' # out /\ out'.status = 400 /\ out'.req.op = "messages") =>
        /\ messages' = messages
        /\ users' = users
        /\ pc'[out'.proc] = "idle"

C32_RejectedNoEffect == [][C32_Step]_vars

(* a fetch of a registered user with an unread live row, not seen since   *)
(* an earlier second, was rejected for its limit                          *)
C32_Witness ==
    /\ out.status = 400
    /\ out.req.op = "messages"
    /\ out.req.userID = "u2"
    /\ out.req.limitStr = <<"x">>
    /\ ~out.req.unreadOnly
    /\ "u2" \in Registered
    /\ users["u2"].last_seen < now
    /\ \E m \in Rows : m.recipient_id = "u2" /\ m.read_at = Null
                       /\ m.expires_at > now

(* C33: under every interleaving of sends and fetches with                 *)
(* unreadOnly=false for one recipient, the read-mark of a fetch marks no   *)
(* row that was inserted after the SELECT of that fetch: every row it      *)
(* marks was an unread row of the recipient when the fetch ran its query.  *)
C33_Step ==
    \A p \in Procs :
        (MarkStep(p) /\ ~req[p].unreadOnly) =>
            \A i \in 1..Len(messages) :
                (messages[i].read_at = Null /\ messages'[i].read_at # Null)
                    => messages[i].row \in local[p].pending

C33_MarksOnlySeen == [][C33_Step]_vars

(* C34: the read-mark of a fetch with unreadOnly=false marks only rows the *)
(* fetch returned: an unread row of the recipient, from a registered       *)
(* sender and present at the SELECT, that the result leaves out because of *)
(* the limit, the search string or its expiry keeps read_at = NULL.        *)
C34_Step ==
    \A p \in Procs :
        (MarkStep(p) /\ ~req[p].unreadOnly) =>
            \A i \in 1..Len(messages) :
                (/\ messages[i].read_at = Null
                 /\ messages[i].recipient_id = req[p].userID
                 /\ messages[i].sender_id \in Registered
                 /\ messages[i].row \in local[p].pending
                 /\ messages[i].row \notin {m.row : m \in Returned(p)})
                    => messages'[i].read_at = Null

C34_MarksOnlyReturned == [][C34_Step]_vars

(* the number a fetch with this limit parameter returns out of n matches *)
C35_Count(limitStr, n) ==
    IF limitStr # <<>> /\ Atoi(limitStr).val > 0 /\ Atoi(limitStr).val < n
    THEN Atoi(limitStr).val ELSE n

(* C35: a fetch with limit n > 0 returns min(n, number of matching rows)   *)
(* rows, all of them matching and none older than a matching row it left   *)
(* out; with no limit, limit 0 or a negative limit it returns all          *)
(* matching rows.                                                          *)
C35_Step ==
    \A p \in Procs :
        QueryStep(p) =>
            LET r == req'[p]
                match == Selected(r.userID, r.unreadOnly, r.search)
                res == local'[p].messages
                got == {res[i] : i \in 1..Len(res)}
            IN /\ Len(res) = C35_Count(r.limitStr, Cardinality(match))
               /\ Cardinality(got) = Len(res)
               /\ got \subseteq match
               /\ \A a \in got : \A b \in match \ got :
                      a.created_at >= b.created_at

C35_LimitNewest == [][C35_Step]_vars

(* a fetch with limit 1 answered with the newer of two matching rows *)
C35_Witness ==
    /\ out.status = 200
    /\ out.req.op = "messages"
    /\ out.req.limitStr = <<"1">>
    /\ out.req.search = <<>>
    /\ ~out.req.unreadOnly
    /\ Len(out.body) = 1
    /\ \E m \in Rows : /\ m.recipient_id = out.req.userID
                       /\ m.sender_id \in Registered
                       /\ m.expires_at > now
                       /\ m.created_at < out.body[1].created_at

(* C36: a fetch for r returns only rows with recipient_id = r, and none of *)
(* its steps changes a row of another recipient, a user other than r, or   *)
(* the set of users.                                                       *)
C36_Step ==
    \A p \in Procs :
        /\ QueryStep(p) =>
              /\ \A i \in 1..Len(local'[p].messages) :
                     local'[p].messages[i].recipient_id = req'[p].userID
              /\ messages' = messages
              /\ users' = users
        /\ (pc[p] \in {"msgs_mark", "msgs_seen"} /\ pc'[p] # pc[p]) =>
              /\ Len(messages') = Len(messages)
              /\ \A i \in 1..Len(messages) :
                     messages[i].recipient_id # req[p].userID
                         => messages'[i] = messages[i]
              /\ DOMAIN users' = DOMAIN users
              /\ \A u \in Registered \ {req[p].userID} : users'[u] = users[u]

C36_FetchIsolated == [][C36_Step]_vars

(* a fetch of u2 returned and marked a row while an unread row of u1 and   *)
(* the presence of u1, last seen earlier, stayed as they were              *)
C36_Witness ==
    /\ out.status = 200
    /\ out.req.op = "messages"
    /\ out.req.userID = "u2"
    /\ ~out.req.unreadOnly
    /\ \E i \in 1..Len(out.body) :
          Stored(out.body[i].row) /\ RowOf(out.body[i].row).read_at = now
    /\ \E m \in Rows : m.recipient_id = "u1" /\ m.read_at = Null
    /\ "u1" \in Registered
    /\ users["u1"].last_seen < now

(* ---------------------------------------------------------------------- *)
(* The set of identities                                                   *)
(* ---------------------------------------------------------------------- *)

(* C37: no step removes a user, and a step adds a user only as the         *)
(* transaction of a /register that answers 201, and then only the id of    *)
(* that request; sends, fetches (also of or from unregistered ids), the    *)
(* user list, the name check and the cleanup leave the set of ids as it    *)
(* is.                                                                     *)
C37_Step ==
    /\ Registered \subseteq DOMAIN users'
    /\ DOMAIN users' # Registered =>
          \E p \in Procs :
              /\ pc[p] = "reg_tx" /\ pc'[p] = "idle"
              /\ out'.status = 201
              /\ out'.req.op = "register"
              /\ DOMAIN users' = Registered \cup {out'.req.user.ID}

C37_IdentitiesGrowOnly == [][C37_Step]_vars

(* an unregistered id has sent a message and fetched, the cleanup has run, *)
(* and the users table still holds exactly the one registered id           *)
C37_Witness ==
    /\ out.status = 200
    /\ out.req.op = "messages"
    /\ out.req.userID = "u2"
    /\ Registered = {"u1"}
    /\ \E m \in Rows : m.sender_id = "u2"
    /\ retired # {}
    /\ ~users["u1"].online

(* ---------------------------------------------------------------------- *)
(* Effects of the codec on its arguments                                   *)
(* ---------------------------------------------------------------------- *)

(* C38: after EncryptMessage has returned, the attachment the caller       *)
(* passed still holds the plaintext bytes, and the other fields, it held   *)
(* before the call.                                                        *)
C38_InputsKept ==
    (codec.step # "none" /\ codec.plain.attachment.present) =>
        codec.given = codec.plain.attachment

(* C39: DecryptMessage leaves the encrypted content and the encrypted      *)
(* attachment of the envelope as they were, and a second call with the     *)
(* same private key on the same envelope returns the same plaintext and    *)
(* leaves the same attachment bytes as the first.                          *)
C39_DecryptRepeatable ==
    (codec.step = "decrypted" /\ codec.res.status = "ok") =>
        /\ codec.msg.Content = codec.before.Content
        /\ codec.msg.Attachment = codec.before.Attachment
        /\ DecryptMessage(codec.key, codec.msg).status = "ok"
        /\ DecryptMessage(codec.key, codec.msg).plaintext = codec.res.plaintext
        /\ DecryptMessage(codec.key, codec.msg).msg.Attachment =
               codec.msg.Attachment

(* ---------------------------------------------------------------------- *)
(* Registration by the client                                              *)
(* ---------------------------------------------------------------------- *)

(* C40: a /register request whose display name is free is not turned away  *)
(* at the validation: the hub answers at once only with 409 for a name     *)
(* another user holds, and otherwise stores, with 201, a user whose id is  *)
(* the userID the client generated.                                        *)
C40_Step ==
    \A p \in Procs :
        /\ (/\ pc[p] = "idle" /\ pc'[p] = "idle"
            /\ out' # out /\ out'.status # 0
            /\ out'.req.op = "register") =>
               /\ out'.status = 409
               /\ NameExists(out'.req.user.DisplayName)
        /\ (pc[p] = "reg_tx" /\ pc'[p] = "idle") =>
               /\ out'.status = 201
               /\ out'.req.user.ID \in ClientUserIDs
               /\ out'.req.user.ID \in DOMAIN users'

C40_ClientRegistered == [][C40_Step]_vars
====
